---- MODULE Spec2Model ----
(***************************************************************************)
(* Model of the voice study-session orchestrator, the hook                 *)
(* useRealtimeSession of src/src/components/ui/ConnectionCard.tsx          *)
(* (lines 119-563), together with the mock card source AnkiService and the *)
(* remote card source AnkiConnectService.                                  *)
(*                                                                         *)
(* One action is one synchronous block of the code: the code between two   *)
(* awaits that really leave the JavaScript job (getUserMedia,              *)
(* session.connect, the AnkiConnect fetches).  An await of an already      *)
(* settled promise only costs a microtask, which no user action, timer or  *)
(* transport event can interleave with, so it does not end a block.        *)
(* Each block is written as an operator from the state record to the state *)
(* record, so that a block can call another (startStudySession calls       *)
(* connect, the tool handler calls fetchNextCardInternal).                 *)
(***************************************************************************)
EXTENDS Integers, Sequences, FiniteSets, TLC

\* ---------------------------------------------------------------- bounds
MaxTasks == 2
MaxSessions == 2
NCards == 2
NCalls == 1

\* ------------------------------------------------------------- constants
NULL == "<null>"
EvalDelay == 3
EaseCorrect == 3
EaseIncorrect == 1
EndOfSession == "END OF SESSION"
ToolName == "evaluate_and_move_next"
OtherTool == "other_tool"

\* ------------------------------------------------------------ mock deck
MOCK_DECK ==
  << [id |-> "c1", front |-> "Amazon Detective",
      back |-> "Amazon Detective simplifies the process of analyzing, investigating, and identifying the root cause of potential security issues or suspicious activities. It automatically collects log data from your AWS resources and uses machine learning, statistical analysis, and graph theory to generate visualizations that help you conduct faster and more efficient security investigations."],
     [id |-> "c2", front |-> "AWS Fargate",
      back |-> "AWS Fargate is a serverless compute engine for containers that works with both Amazon Elastic Container Service (ECS) and Amazon Elastic Kubernetes Service (EKS). Fargate removes the need to provision and manage servers, lets you specify and pay for resources per application, and improves security through application isolation by design."],
     [id |-> "c3", front |-> "DynamoDB Consistency Models",
      back |-> "DynamoDB supports two consistency models: Eventually Consistent and Strongly Consistent. Eventually Consistent reads are the default and maximize your read throughput, but might not reflect the results of a recently completed write. Strongly Consistent reads return a result that reflects all writes that received a successful response prior to the read."] >>

\* A card as the orchestrator holds it: { cardId, fields: { Front, Back } }.
NoCard == [cardId |-> NULL, Front |-> NULL, Back |-> NULL]

\* Past the last card the cursor goes back to the first one.
getNextCardCyclic(currentIndex) ==
  LET i == IF currentIndex >= Len(MOCK_DECK) THEN 0 ELSE currentIndex
  IN [card |-> [cardId |-> MOCK_DECK[i + 1].id,
                Front |-> MOCK_DECK[i + 1].front,
                Back |-> MOCK_DECK[i + 1].back],
      currentIndex |-> i + 1,
      progress |-> "of"]

\* AnkiService.getNextCard: the card at the cursor and the cursor after it.
getNextCard(currentIndex) ==
  IF currentIndex >= Len(MOCK_DECK)
  THEN [card |-> NoCard, currentIndex |-> currentIndex, progress |-> "Completed"]
  ELSE [card |-> [cardId |-> MOCK_DECK[currentIndex + 1].id,
                  Front |-> MOCK_DECK[currentIndex + 1].front,
                  Back |-> MOCK_DECK[currentIndex + 1].back],
        currentIndex |-> currentIndex + 1,
        progress |-> "of"]

\* AnkiService.getDeckStats().remainingCards
remainingCards(currentIndex) == Len(MOCK_DECK) - currentIndex

\* --------------------------------------------------- remote card source
\* The notes the remote service knows: identifier, front and back text.
\* The second note has an empty Back field.
RemoteIdSeq == << "1001", "1002", "1003", "1004" >>
RemoteFrontSeq == << "Q1", "Q2", "Q3", "Q4" >>
RemoteBackSeq == << "A1", "", "A3", "A4" >>
RemoteIds == { RemoteIdSeq[i] : i \in 1..NCards }
RemoteCard(id) ==
  LET i == CHOOSE j \in 1..Len(RemoteIdSeq) : RemoteIdSeq[j] = id
  IN [cardId |-> id, Front |-> RemoteFrontSeq[i], Back |-> RemoteBackSeq[i]]

Decks == { "Spanish" }

RECURSIVE SeqsOver(_, _)
SeqsOver(S, n) ==
  IF n = 0 THEN { << >> }
  ELSE LET shorter == SeqsOver(S, n - 1)
       IN shorter \cup { Append(q, x) : q \in shorter, x \in S }
Distinct(q) == \A i, j \in 1..Len(q) : i # j => q[i] # q[j]
\* What findDueCards may answer: any list of distinct known identifiers.
DueLists == { q \in SeqsOver(RemoteIds, NCards) : Distinct(q) }

CallIds == 1..NCalls

\* ------------------------------------------------------ tool-call inputs
\* The argument strings the transport may deliver with
\* response.function_call_arguments.done.
ArgsCorrect == "{\"user_response_quality\":\"correct\",\"feedback_text\":\"ok\"}"
ArgsIncorrect == "{\"user_response_quality\":\"incorrect\",\"feedback_text\":\"no\"}"
ArgsMaybe == "{\"user_response_quality\":\"maybe\",\"feedback_text\":\"hm\"}"
ArgsTruncated == "{\"user_response_quality\":\"corr"
ArgStrings == { ArgsCorrect, ArgsIncorrect, ArgsMaybe, ArgsTruncated }

\* JSON.parse on those strings: the parsed object, or a SyntaxError.
JSONparse(argsStr) ==
  CASE argsStr = ArgsCorrect ->
         [threw |-> FALSE, user_response_quality |-> "correct", feedback_text |-> "ok"]
    [] argsStr = ArgsIncorrect ->
         [threw |-> FALSE, user_response_quality |-> "incorrect", feedback_text |-> "no"]
    [] argsStr = ArgsMaybe ->
         [threw |-> FALSE, user_response_quality |-> "maybe", feedback_text |-> "hm"]
    [] OTHER ->
         [threw |-> TRUE, user_response_quality |-> NULL, feedback_text |-> NULL]

\* The enum the tool schema declares for user_response_quality.
VerdictEnum == { "correct", "incorrect" }

\* ------------------------------------------------------------------ state
VARIABLES
  isConnected,        \* useState: the session is connected
  isConnecting,       \* useState: a connect() is running
  error,              \* useState: last error reason, NULL when none
  evaluation,         \* useState: last verdict shown, NULL when none
  evalTimer,          \* seconds left on the badge timeout, 0 when none is armed
  isStudyMode,        \* useState
  currentCard,        \* useState: the card exposed to the UI
  sessionRef,         \* useRef: the RealtimeSession, 0 when null
  toolCallNames,      \* useRef: call id -> tool name, NULL when absent
  currentIndex,       \* mockServiceRef.current.currentIndex
  activeDeckNameRef,  \* useRef: bound remote deck, NULL in mock mode
  realQueueRef,       \* useRef: identifiers still due
  currentCardRef,     \* useRef: the card the tool grades
  streamRef,          \* useRef: the captured MediaStream, 0 when null
  apiKey,             \* import.meta.env.VITE_OPENAI_API_KEY is set
  sessions,           \* every RealtimeSession object: free, new, live, closed
  listening,          \* sessions with the transport_event listener attached
  liveStreams,        \* MediaStreams whose tracks are not stopped
  tasks,              \* the suspended async calls
  sent,               \* the messages the last block sent to the transport
  answers,            \* the answerCard requests the last block issued
  uncaught,           \* the operation whose promise the last block rejected
  last                \* the block that ran last: its call, the sessionRef it
                      \* found, and the deck name or argument string it was given

vars == << isConnected, isConnecting, error, evaluation, evalTimer,
           isStudyMode, currentCard, sessionRef, toolCallNames, currentIndex,
           activeDeckNameRef, realQueueRef, currentCardRef, streamRef, apiKey,
           sessions, listening, liveStreams, tasks, sent, answers, uncaught,
           last >>

\* The state as one record, the form the blocks work on.  debugInfo, the
\* transcript, is written by the hook and never read by it: the field holds
\* the lines the running block has appended, and is not kept between blocks.
Cur ==
  [ isConnected |-> isConnected, isConnecting |-> isConnecting, error |-> error,
    debugInfo |-> << >>, evaluation |-> evaluation, evalTimer |-> evalTimer,
    isStudyMode |-> isStudyMode, currentCard |-> currentCard,
    sessionRef |-> sessionRef, toolCallNames |-> toolCallNames,
    currentIndex |-> currentIndex, activeDeckNameRef |-> activeDeckNameRef,
    realQueueRef |-> realQueueRef, currentCardRef |-> currentCardRef,
    streamRef |-> streamRef, apiKey |-> apiKey, sessions |-> sessions,
    listening |-> listening, liveStreams |-> liveStreams, tasks |-> tasks,
    sent |-> << >>, answers |-> << >>, uncaught |-> "none", last |-> last ]

\* A suspended call: the operation, the await it is parked on, its locals.
\* cardBefore, queueBefore and after are not locals of the code: they
\* remember the current card and the due queue a tool call found when it
\* was taken up, and the tool calls taken up before it that are still
\* suspended.
Idle ==
  [ op |-> "idle", pc |-> "idle", skipGreeting |-> FALSE, session |-> 0,
    deckName |-> NULL, call_id |-> 0, answeredCardBack |-> NULL,
    nextId |-> NULL, cardBefore |-> NoCard, queueBefore |-> << >>,
    after |-> {} ]

Slots == 1..MaxTasks
FreeSlots(s) == { t \in Slots : s.tasks[t].op = "idle" }
FreeSlot(s) == CHOOSE t \in FreeSlots(s) : \A u \in FreeSlots(s) : t <= u
AllIdle == \A t \in Slots : tasks[t].op = "idle"

\* A closed session object nothing refers to any more is collected.
Referenced(s, i) ==
  \/ s.sessionRef = i
  \/ \E t \in Slots : s.tasks[t].op # "idle" /\ s.tasks[t].session = i
Collect(s) ==
  LET dead == { i \in 1..MaxSessions : s.sessions[i] = "closed" /\ ~Referenced(s, i) }
  IN [s EXCEPT !.sessions = [i \in 1..MaxSessions |->
                               IF i \in dead THEN "free" ELSE s.sessions[i]],
               !.listening = s.listening \ dead]

\* The end of a block: the state record becomes the next state.
Commit(r) ==
  LET s == Collect(r)
  IN /\ isConnected' = s.isConnected
     /\ isConnecting' = s.isConnecting
     /\ error' = s.error
     /\ evaluation' = s.evaluation
     /\ evalTimer' = s.evalTimer
     /\ isStudyMode' = s.isStudyMode
     /\ currentCard' = s.currentCard
     /\ sessionRef' = s.sessionRef
     /\ toolCallNames' = s.toolCallNames
     /\ currentIndex' = s.currentIndex
     /\ activeDeckNameRef' = s.activeDeckNameRef
     /\ realQueueRef' = s.realQueueRef
     /\ currentCardRef' = s.currentCardRef
     /\ streamRef' = s.streamRef
     /\ apiKey' = s.apiKey
     /\ sessions' = s.sessions
     /\ listening' = s.listening
     /\ liveStreams' = s.liveStreams
     /\ tasks' = s.tasks
     /\ sent' = s.sent
     /\ answers' = s.answers
     /\ uncaught' = s.uncaught
     /\ last' = s.last

\* --------------------------------------------------------------- helpers
\* appendDebug
appendDebug(s, msg) == [s EXCEPT !.debugInfo = Append(@, msg)]

\* setEvaluation followed by the effect on [evaluation]: a changed, truthy
\* value arms a fresh timeout (the cleanup clears the old one); an unchanged
\* value re-renders nothing, so the effect does not run again.
setEvaluation(s, v) ==
  IF v = s.evaluation THEN s
  ELSE [s EXCEPT !.evaluation = v,
                 !.evalTimer = IF v # NULL THEN EvalDelay ELSE 0]

\* session.transport.sendEvent on the given session object.
Msg(session, type) ==
  [ session |-> session, type |-> type, call_id |-> 0, status |-> NULL,
    answered_card_back |-> NULL, next_front |-> NULL, next_back |-> NULL,
    instructions |-> NULL, tools |-> << >> ]
sendEvent(s, m) == [s EXCEPT !.sent = Append(@, m)]

Park(s, t, task) == [s EXCEPT !.tasks[t] = task]
Finish(s, t) ==
  [s EXCEPT !.tasks = [u \in Slots |->
                         IF u = t THEN Idle
                         ELSE [s.tasks[u] EXCEPT !.after = @ \ {t}]]]
\* The start of a block: nothing logged or sent yet, nothing thrown.
NoEvent ==
  [ type |-> "none", item_type |-> NULL, name |-> NULL, call_id |-> 0,
    arguments |-> NULL ]
Block(block, t, session, input) ==
  [ block |-> block, task |-> t, session |-> session, input |-> input ]
BeginWith(block, t, input) == [Cur EXCEPT !.last = Block(block, t, sessionRef, input)]
Begin(block, t) == BeginWith(block, t, NULL)

\* ---------------------------------------------------------------- connect
FreeSessions(s) == { i \in 1..MaxSessions : s.sessions[i] = "free" }
FreeStreams(s) == (1..MaxSessions) \ s.liveStreams
\* connect creates its stream and its session object together: the model
\* numbers the pair alike.
FreePairs(s) == FreeSessions(s) \cap FreeStreams(s)
Lowest(S) == CHOOSE i \in S : \A j \in S : i <= j
AtMic(s) == { t \in Slots : s.tasks[t].pc = "mic" }

\* The catch only clears the connected flag: no reason, no line, and the
\* connecting flag stays up.
connectFailedSilent(s, message) == [s EXCEPT !.isConnected = FALSE]

\* connect, lines 223-231: catch and finally.
connectFailed(s, message) ==
  [appendDebug([s EXCEPT !.error = message], "Error: connect")
     EXCEPT !.isConnected = FALSE, !.isConnecting = FALSE]

\* connect, lines 164-175: up to the await of getUserMedia.  ret is what
\* connect has returned, "pending" while it is suspended.
connectBegin(s, t, skipGreeting, op, deckName) ==
  LET s1 == appendDebug([s EXCEPT !.isConnecting = TRUE, !.error = NULL],
                        "Starting connection...")
  IN IF ~s.apiKey
     THEN [st |-> connectFailed(s1, "VITE_OPENAI_API_KEY not found"), ret |-> "false"]
     ELSE [st |-> Park(appendDebug(appendDebug(s1, "Requesting microphone..."),
                                   "Requesting microphone..."),
                       t, [Idle EXCEPT !.op = op, !.pc = "mic",
                                       !.skipGreeting = skipGreeting,
                                       !.deckName = deckName]),
           ret |-> "pending"]

\* connect, lines 175-196: getUserMedia resolved, up to the await of
\* session.connect; or getUserMedia rejected.
connectMic(s, t, granted) ==
  IF ~granted
  THEN [st |-> connectFailed(s, "Permission denied"), ret |-> "false"]
  ELSE LET stream == Lowest(FreePairs(s))
           session == Lowest(FreePairs(s))
           s1 == appendDebug([s EXCEPT !.liveStreams = @ \cup {stream},
                                       !.streamRef = stream],
                             "Microphone access granted.")
           s2 == appendDebug([s1 EXCEPT !.sessions[session] = "new",
                                        !.sessionRef = session],
                             "Connecting session...")
       IN [st |-> Park(s2, t, [s.tasks[t] EXCEPT !.pc = "handshake",
                                                 !.session = session]),
           ret |-> "pending"]

\* connect, lines 196-221: session.connect resolved; or it rejected.  A
\* session that disconnect() closed meanwhile stays closed.
connectHandshake(s, t, resolved) ==
  LET session == s.tasks[t].session
  IN IF ~resolved
     THEN [st |-> connectFailed([s EXCEPT !.sessions[session] = "closed"],
                                "Connection failed"),
           ret |-> "false"]
     ELSE LET s1 == [appendDebug(s, "Session connected!")
                       EXCEPT !.isConnected = TRUE,
                              !.sessions[session] =
                                 IF @ = "new" THEN "live" ELSE @]
              s2 == IF s.tasks[t].skipGreeting THEN s1
                    ELSE sendEvent(
                           sendEvent(s1, [Msg(session, "session.update")
                                            EXCEPT !.instructions = "Say hello to the user."]),
                           Msg(session, "response.create"))
          IN [st |-> [s2 EXCEPT !.listening = @ \cup {session},
                                !.isConnecting = FALSE],
              ret |-> "true"]

\* ------------------------------------------------------------- disconnect
\* The session is torn down without the test of line 235: with no session
\* the call on null throws.
disconnectUnguarded(s) ==
  IF s.sessionRef = 0 THEN [s EXCEPT !.uncaught = "disconnect"]
  ELSE LET s1 == [s EXCEPT !.sessions[s.sessionRef] = "closed", !.sessionRef = 0]
           s2 == IF s1.streamRef # 0
                 THEN appendDebug([s1 EXCEPT !.liveStreams = @ \ {s1.streamRef},
                                             !.streamRef = 0],
                                  "Microphone stream stopped.")
                 ELSE s1
       IN appendDebug([s2 EXCEPT !.isConnected = FALSE, !.isStudyMode = FALSE,
                                 !.activeDeckNameRef = NULL, !.currentCard = NoCard],
                      "Disconnected.")

\* The teardown is called outside any try: what it throws leaves disconnect.
teardownUncaught(s, threw) ==
  [s EXCEPT !.sessions[s.sessionRef] = "closed",
            !.uncaught = IF threw THEN "disconnect" ELSE @]

\* Lines 236-240: sessionRef.current.disconnect?.() inside try/catch.  The
\* session object is closed by the call; an error it throws is caught and
\* only warned about on the console.
teardown(s, threw) == [s EXCEPT !.sessions[s.sessionRef] = "closed"]

\* disconnect, lines 234-256; threw tells whether the teardown of the
\* session throws.  An error nothing catches ends the call where it is.
disconnectCall(s, threw) ==
  LET s0 == IF s.sessionRef # 0 THEN teardown(s, threw) ELSE s
      s1 == IF s.sessionRef # 0 THEN [s0 EXCEPT !.sessionRef = 0] ELSE s0
      s2 == IF s1.streamRef # 0
            THEN appendDebug([s1 EXCEPT !.liveStreams = @ \ {s1.streamRef},
                                        !.streamRef = 0],
                             "Microphone stream stopped.")
            ELSE s1
  IN IF s0.uncaught # "none" THEN s0
     ELSE appendDebug([s2 EXCEPT !.isConnected = FALSE, !.isStudyMode = FALSE,
                                 !.activeDeckNameRef = NULL, !.currentCard = NoCard],
                      "Disconnected.")

\* disconnect() with a teardown that returns.
disconnect(s) == disconnectCall(s, FALSE)
\* --------------------------------------------------- fetchNextCardInternal
\* Lines 260-266: in real mode with a non-empty queue the call awaits
\* cardsInfo([nextId]).
fetchSuspends(s) == s.activeDeckNameRef # NULL /\ Len(s.realQueueRef) > 0
fetchNextId(s) == s.realQueueRef[1]

\* Lines 259-295 where nothing is awaited: real mode with an empty queue,
\* and mock mode.  card is the value returned, NoCard for null.
fetchNextCardSync(s) ==
  IF s.activeDeckNameRef # NULL
  THEN [st |-> s, card |-> NoCard]
  ELSE LET r == getNextCard(s.currentIndex)
           s1 == [s EXCEPT !.currentIndex = r.currentIndex]
       IN IF r.card # NoCard
          THEN [st |-> [s1 EXCEPT !.currentCardRef = r.card,
                                  !.currentCard = r.card],
                card |-> r.card]
          ELSE [st |-> s1, card |-> NoCard]

\* The card is made current but its identifier stays at the head of the queue.
fetchNextCardResumeKeepsHead(s, info) ==
  IF Len(info) > 0
  THEN [st |-> [s EXCEPT !.currentCardRef = info[1], !.currentCard = info[1]],
        card |-> info[1]]
  ELSE [st |-> s, card |-> NoCard]

\* Lines 267-276: cardsInfo resolved with the list info.
fetchNextCardResume(s, info) ==
  IF Len(info) > 0
  THEN [st |-> [s EXCEPT !.realQueueRef = SubSeq(@, 2, Len(@)),
                         !.currentCardRef = info[1],
                         !.currentCard = info[1]],
        card |-> info[1]]
  ELSE [st |-> s, card |-> NoCard]

\* What cardsInfo([id]) may resolve with: the card, or a short result.
InfoFor(id, found) == IF found THEN << RemoteCard(id) >> ELSE << >>

\* ------------------------------------------------------ answerCardInternal
\* Line 299: the real answer is sent only with a bound deck and a card.
answerSuspends(s) == s.activeDeckNameRef # NULL /\ s.currentCardRef # NoCard
\* The two ease values exchanged.
easeOfSwapped(verdict) == IF verdict = "correct" THEN EaseIncorrect ELSE EaseCorrect

\* Lines 302-303: the ease of the verdict, and the request.
easeOf(verdict) == IF verdict = "correct" THEN EaseCorrect ELSE EaseIncorrect
answerCard(s, verdict) ==
  [s EXCEPT !.answers = Append(@, [cardId |-> s.currentCardRef.cardId,
                                   ease |-> easeOf(verdict)])]

\* -------------------------------------------------------- startStudySession
\* A second tool is declared next to the first.
DeclaredToolsTwo == << ToolName, OtherTool >>

\* The tool list of the session.update, lines 437-458.
DeclaredTools == << ToolName >>

\* Lines 428-472: the three messages, on whatever sessionRef holds now; a
\* null sessionRef makes the first sendEvent a TypeError nothing catches.
startSend(s, t, instructions) ==
  LET s1 == appendDebug(s, "Starting Study Session")
  IN IF s1.sessionRef = 0
     THEN Finish([s1 EXCEPT !.uncaught = "startStudySession"], t)
     ELSE Finish(
            sendEvent(
              sendEvent(
                sendEvent(s1, [Msg(s1.sessionRef, "session.update")
                                 EXCEPT !.instructions = instructions,
                                        !.tools = DeclaredTools]),
                Msg(s1.sessionRef, "conversation.item.create")),
              Msg(s1.sessionRef, "response.create")),
            t)

\* Lines 362-413: after the second fetch of real mode.
startAfterSecond(s, t) == startSend(s, t, "ROLE: You are an expert Anki Tutor.")

\* Lines 415-418: the catch of real mode.
startInitFailed(s, t) == Finish(appendDebug(s, "Error init real session"), t)

\* Lines 356-362: findDueCards resolved with dueCards, then the second
\* fetchNextCardInternal up to its await.
startDue(s, t, dueCards) ==
  LET s1 == [s EXCEPT !.realQueueRef = dueCards]
  IN IF fetchSuspends(s1)
     THEN Park(s1, t, [Idle EXCEPT !.op = "startStudySession", !.pc = "fetch2",
                                   !.nextId = fetchNextId(s1)])
     ELSE startAfterSecond(fetchNextCardSync(s1).st, t)

\* Lines 339-356 and 419-426: after the first fetch, the branch on the
\* bound deck; real mode awaits findDueCards, mock mode resets the cursor.
startAfterFirst(s, t) ==
  IF s.activeDeckNameRef # NULL
  THEN Park(s, t, [Idle EXCEPT !.op = "startStudySession", !.pc = "due",
                                  !.deckName = s.activeDeckNameRef])
  ELSE startSend([s EXCEPT !.currentIndex = 0], t,
                 "ROLE: Demo Tutor. Use evaluate_and_move_next.")

\* The binding is overwritten by whatever was passed, an absent name too.
bindDeckAlways(s, deckName) == [s EXCEPT !.activeDeckNameRef = deckName]

\* Lines 326-332: a deck name given is bound; an absent one leaves the
\* binding alone, and is logged when there is none.
bindDeck(s, deckName) ==
  IF deckName # NULL
  THEN [s EXCEPT !.activeDeckNameRef = deckName]
  ELSE IF s.activeDeckNameRef = NULL
       THEN appendDebug(s, "No deckName provided.")
       ELSE s

\* Lines 321-338: from the log line to the first fetchNextCardInternal.
startBody(s, t, deckName) ==
  LET s1 == [appendDebug(s, "startStudySession called") EXCEPT !.isStudyMode = TRUE]
      s2 == bindDeck(s1, deckName)
      s3 == [s2 EXCEPT !.currentCardRef = NoCard, !.currentCard = NoCard]
  IN IF fetchSuspends(s3)
     THEN Park(s3, t, [Idle EXCEPT !.op = "startStudySession", !.pc = "fetch1",
                                   !.nextId = fetchNextId(s3)])
     ELSE startAfterFirst(fetchNextCardSync(s3).st, t)

\* Lines 314-319: connect(true) has returned ret to startStudySession.
startAfterConnect(r, t) ==
  IF r.ret = "pending" THEN r.st
  ELSE IF r.ret = "false"
  THEN Finish(appendDebug(r.st, "Failed to auto-connect. Aborting study session."), t)
  ELSE startBody(r.st, t, r.st.tasks[t].deckName)

\* Lines 310-319: the entry of startStudySession.
startStudySession(s, t, deckName) ==
  IF s.sessionRef = 0
  THEN startAfterConnect(
         connectBegin(appendDebug(s, "Auto-connecting for study session..."),
                      t, TRUE, "startStudySession", deckName),
         t)
  ELSE startBody(s, t, deckName)

\* A connect block has ended for the call in slot t: connect() called
\* directly is over when it returned, the auto-connect goes on into
\* startStudySession.
afterConnect(r, t, op) ==
  IF op = "startStudySession" THEN startAfterConnect(r, t)
  ELSE IF r.ret = "pending" THEN r.st ELSE Finish(r.st, t)
\* ----------------------------------------------------- handleTransportEvent
\* Line 515: currentCardRef.current?.fields?.Back?.value || null.  The
\* empty string is falsy, so an empty back text becomes null as well.
orNull(value) == IF value = NULL \/ value = "" THEN NULL ELSE value

\* The result reports the back text of the card just fetched.
toolFinishNewBack(s, t, session, call_id, answeredCardBack, nextCard) ==
  LET output == [Msg(session, "function_call_output")
                   EXCEPT !.call_id = call_id,
                          !.status = "success",
                          !.answered_card_back = orNull(nextCard.Back),
                          !.next_front = IF nextCard # NoCard THEN nextCard.Front
                                         ELSE EndOfSession,
                          !.next_back = IF nextCard # NoCard THEN nextCard.Back
                                        ELSE EndOfSession]
  IN Finish(sendEvent(sendEvent(s, output), Msg(session, "response.create")), t)

\* With no card fetched the result carries null as its next card.
toolFinishNullNext(s, t, session, call_id, answeredCardBack, nextCard) ==
  LET output == [Msg(session, "function_call_output")
                   EXCEPT !.call_id = call_id,
                          !.status = "success",
                          !.answered_card_back = answeredCardBack,
                          !.next_front = nextCard.Front,
                          !.next_back = nextCard.Back]
  IN Finish(sendEvent(sendEvent(s, output), Msg(session, "response.create")), t)

\* The result is sent and no response is asked for.
toolFinishNoTrigger(s, t, session, call_id, answeredCardBack, nextCard) ==
  LET output == [Msg(session, "function_call_output")
                   EXCEPT !.call_id = call_id,
                          !.status = "success",
                          !.answered_card_back = answeredCardBack,
                          !.next_front = IF nextCard # NoCard THEN nextCard.Front
                                         ELSE EndOfSession,
                          !.next_back = IF nextCard # NoCard THEN nextCard.Back
                                        ELSE EndOfSession]
  IN Finish(sendEvent(s, output), t)

\* Lines 522-542: the result of the call, sent on the session the handler
\* read at its entry, then the response trigger.
toolFinish(s, t, session, call_id, answeredCardBack, nextCard) ==
  LET s1 == appendDebug(s, IF nextCard # NoCard
                           THEN "[Tool Result] Next Card: Loaded"
                           ELSE "[Tool Result] Next Card: End")
      output == [Msg(session, "function_call_output")
                   EXCEPT !.call_id = call_id,
                          !.status = "success",
                          !.answered_card_back = answeredCardBack,
                          !.next_front = IF nextCard # NoCard THEN nextCard.Front
                                         ELSE EndOfSession,
                          !.next_back = IF nextCard # NoCard THEN nextCard.Back
                                        ELSE EndOfSession]
  IN Finish(sendEvent(sendEvent(s1, output), Msg(session, "response.create")), t)

\* The error is thrown on out of the handler, and nothing is logged.
toolErrorRethrown(s, t) == Finish([s EXCEPT !.uncaught = "handleTransportEvent"], t)

\* Lines 544-546: the catch of the tool execution.
toolError(s, t) == Finish(appendDebug(s, "Tool Error"), t)

\* Line 521: fetchNextCardInternal, up to its await or to the result.
toolFetch(s, t, task) ==
  IF fetchSuspends(s)
  THEN Park(s, t, [task EXCEPT !.pc = "fetch", !.nextId = fetchNextId(s)])
  ELSE LET r == fetchNextCardSync(s)
       IN toolFinish(r.st, t, task.session, task.call_id,
                     task.answeredCardBack, r.card)

\* The call is serviced whatever the registry holds for its identifier.
toolExecuteAnyName(s, t, session, call_id, argsStr) ==
  LET s1 == appendDebug(s, "[Tool Executing]")
      args == JSONparse(argsStr)
      verdict == args.user_response_quality
      s2 == setEvaluation(appendDebug(s1, "[Evaluation]"), verdict)
      task == [Idle EXCEPT !.op = "handleTransportEvent", !.session = session,
                           !.call_id = call_id,
                           !.answeredCardBack = orNull(s.currentCardRef.Back),
                           !.cardBefore = s.currentCardRef,
                           !.queueBefore = s.realQueueRef,
                           !.after = { u \in Slots :
                                         s.tasks[u].op = "handleTransportEvent" }]
  IN IF args.threw THEN toolError(s1, t)
     ELSE IF answerSuspends(s2)
     THEN Park(answerCard(s2, verdict), t, [task EXCEPT !.pc = "grade"])
     ELSE toolFetch(s2, t, task)

\* Lines 500-521: the arguments of a call are complete.
toolExecute(s, t, session, call_id, argsStr) ==
  LET name == s.toolCallNames[call_id]
      s1 == appendDebug(s, "[Tool Executing]")
      args == JSONparse(argsStr)
      verdict == args.user_response_quality
      s2 == setEvaluation(appendDebug(s1, "[Evaluation]"), verdict)
      task == [Idle EXCEPT !.op = "handleTransportEvent", !.session = session,
                           !.call_id = call_id,
                           !.answeredCardBack = orNull(s.currentCardRef.Back),
                           !.cardBefore = s.currentCardRef,
                           !.queueBefore = s.realQueueRef,
                           !.after = { u \in Slots :
                                         s.tasks[u].op = "handleTransportEvent" }]
  IN IF name # ToolName THEN s1
     ELSE IF args.threw THEN toolError(s1, t)
     ELSE IF answerSuspends(s2)
     THEN Park(answerCard(s2, verdict), t, [task EXCEPT !.pc = "grade"])
     ELSE toolFetch(s2, t, task)

\* The events the transport delivers.
EventTypes ==
  { "response.audio_transcript.done",
    "conversation.item.input_audio_transcription.completed",
    "response.audio.delta",
    "response.audio_transcript.delta",
    "response.output_item.added",
    "response.function_call_arguments.done",
    "response.done" }
Event(type) == [NoEvent EXCEPT !.type = type]
Events ==
  { Event(type) : type \in EventTypes \ { "response.output_item.added",
                                          "response.function_call_arguments.done" } }
  \cup { [Event("response.output_item.added") EXCEPT !.item_type = "message"] }
  \cup { [Event("response.output_item.added")
            EXCEPT !.item_type = "function_call", !.name = n, !.call_id = c]
          : n \in { ToolName, OtherTool }, c \in CallIds }
  \cup { [Event("response.function_call_arguments.done")
            EXCEPT !.call_id = c, !.arguments = a]
          : c \in CallIds, a \in ArgStrings }

\* The delta events are written to the transcript like the completed ones.
handleTransportEventLogsDelta(s, t, event) ==
  IF s.sessionRef = 0 THEN s
  ELSE IF event.type = "response.audio_transcript.done"
  THEN appendDebug(s, "[AI]")
  ELSE IF event.type = "conversation.item.input_audio_transcription.completed"
  THEN appendDebug(s, "[User]")
  ELSE IF event.type \in { "response.audio.delta", "response.audio_transcript.delta" }
  THEN appendDebug(s, "[AI]")
  ELSE IF event.type = "response.output_item.added"
  THEN IF event.item_type = "function_call"
       THEN appendDebug([s EXCEPT !.toolCallNames[event.call_id] = event.name],
                        "[Tool Queued]")
       ELSE s
  ELSE IF event.type = "response.function_call_arguments.done"
  THEN toolExecute(s, t, s.sessionRef, event.call_id, event.arguments)
  ELSE s

\* Lines 475-549.
handleTransportEvent(s, t, event) ==
  IF s.sessionRef = 0 THEN s
  ELSE IF event.type = "response.audio_transcript.done"
  THEN appendDebug(s, "[AI]")
  ELSE IF event.type = "conversation.item.input_audio_transcription.completed"
  THEN appendDebug(s, "[User]")
  ELSE IF event.type \in { "response.audio.delta", "response.audio_transcript.delta" }
  THEN s
  ELSE IF event.type = "response.output_item.added"
  THEN IF event.item_type = "function_call"
       THEN appendDebug([s EXCEPT !.toolCallNames[event.call_id] = event.name],
                        "[Tool Queued]")
       ELSE s
  ELSE IF event.type = "response.function_call_arguments.done"
  THEN toolExecute(s, t, s.sessionRef, event.call_id, event.arguments)
  ELSE s

\* Line 219: the listener of the session's error event logs the error.
sessionError(s) == appendDebug(s, "[Error]")

\* The fetch follows the grade whether the grade was accepted or not.
toolGradedThenFetch(s, t, resolved) == toolFetch(s, t, s.tasks[t])

\* Lines 518-521: answerCard resolved, or it rejected.
toolGraded(s, t, resolved) ==
  IF resolved THEN toolFetch(s, t, s.tasks[t]) ELSE toolError(s, t)

\* Lines 266-276 and 521-542: cardsInfo resolved with info, or it rejected.
toolFetched(s, t, resolved, info) ==
  IF ~resolved THEN toolError(s, t)
  ELSE LET r == fetchNextCardResume(s, info)
       IN toolFinish(r.st, t, s.tasks[t].session, s.tasks[t].call_id,
                     s.tasks[t].answeredCardBack, r.card)

\* Lines 155-161: one second passes on the badge timeout; at zero the
\* callback runs setEvaluation(null).
tick(s) ==
  IF s.evalTimer = 1 THEN [s EXCEPT !.evalTimer = 0, !.evaluation = NULL]
  ELSE [s EXCEPT !.evalTimer = @ - 1]
\* ------------------------------------------------------------------ Init
Init ==
  /\ isConnected = FALSE
  /\ isConnecting = FALSE
  /\ error = NULL
  /\ evaluation = NULL
  /\ evalTimer = 0
  /\ isStudyMode = FALSE
  /\ currentCard = NoCard
  /\ sessionRef = 0
  /\ toolCallNames = [c \in CallIds |-> NULL]
  /\ currentIndex = 0
  /\ activeDeckNameRef = NULL
  /\ realQueueRef = << >>
  /\ currentCardRef = NoCard
  /\ streamRef = 0
  /\ apiKey \in BOOLEAN
  /\ sessions = [i \in 1..MaxSessions |-> "free"]
  /\ listening = {}
  /\ liveStreams = {}
  /\ tasks = [t \in Slots |-> Idle]
  /\ sent = << >>
  /\ answers = << >>
  /\ uncaught = "none"
  /\ last = Block("init", 0, 0, NULL)

\* --------------------------------------------------------------- actions
\* A connect that reaches getUserMedia will need a fresh stream and a
\* fresh session object.
CanConnect == Cardinality(FreePairs(Cur)) > Cardinality(AtMic(Cur))

\* connect(skipGreeting) is called.
Connect(skipGreeting) ==
  /\ FreeSlots(Cur) # {}
  /\ CanConnect
  /\ LET t == FreeSlot(Cur)
     IN Commit(afterConnect(connectBegin(Begin("connect", t), t, skipGreeting,
                                         "connect", NULL),
                            t, "connect"))

\* getUserMedia settles for the connect in slot t.
ConnectMic(t, granted) ==
  /\ tasks[t].pc = "mic"
  /\ Commit(afterConnect(connectMic(Begin("connect.mic", t), t, granted),
                         t, tasks[t].op))

\* session.connect settles for the connect in slot t.
ConnectHandshake(t, resolved) ==
  /\ tasks[t].pc = "handshake"
  /\ Commit(afterConnect(connectHandshake(Begin("connect.handshake", t), t, resolved),
                         t, tasks[t].op))

\* disconnect() is called.
TeardownThrows == "teardown throws"
Disconnect ==
  \E threw \in (IF sessionRef # 0 THEN BOOLEAN ELSE { FALSE }) :
     Commit(disconnectCall(
              BeginWith("disconnect", 0, IF threw THEN TeardownThrows ELSE NULL),
              threw))

\* startStudySession(deckName) is called; NULL is the absent argument.
StartStudySession(deckName) ==
  /\ FreeSlots(Cur) # {}
  /\ sessionRef = 0 => CanConnect
  /\ LET t == FreeSlot(Cur)
     IN Commit(startStudySession(BeginWith("startStudySession", t, deckName),
                                 t, deckName))

\* The first cardsInfo of startStudySession settles; a rejection is thrown
\* out of startStudySession (line 338 is outside the try).
StartFetch1(t, resolved, found) ==
  /\ tasks[t].op = "startStudySession"
  /\ tasks[t].pc = "fetch1"
  /\ LET s == Begin("start.fetch1", t)
     IN IF resolved
        THEN Commit(startAfterFirst(
                      fetchNextCardResume(s, InfoFor(tasks[t].nextId, found)).st, t))
        ELSE Commit(Finish([s EXCEPT !.uncaught = "startStudySession"], t))

\* findDueCards settles.
StartDue(t, resolved, dueCards) ==
  /\ tasks[t].op = "startStudySession"
  /\ tasks[t].pc = "due"
  /\ LET s == Begin("start.due", t)
     IN IF resolved THEN Commit(startDue(s, t, dueCards))
        ELSE Commit(startInitFailed(s, t))

\* The second cardsInfo of startStudySession settles.
StartFetch2(t, resolved, found) ==
  /\ tasks[t].op = "startStudySession"
  /\ tasks[t].pc = "fetch2"
  /\ LET s == Begin("start.fetch2", t)
     IN IF resolved
        THEN Commit(startAfterSecond(
                      fetchNextCardResume(s, InfoFor(tasks[t].nextId, found)).st, t))
        ELSE Commit(startInitFailed(s, t))

\* A live session with the listener attached emits a transport event.
CanEmit(event) ==
  /\ \E i \in listening : sessions[i] = "live"
  /\ event.type = "response.function_call_arguments.done" => FreeSlots(Cur) # {}
NewSlot == IF FreeSlots(Cur) = {} THEN 0 ELSE FreeSlot(Cur)
TransportEvent(event) ==
  /\ CanEmit(event)
  /\ LET t == NewSlot
     IN Commit(handleTransportEvent(
                 BeginWith("handleTransportEvent", t, event.arguments), t, event))

\* answerCard settles for the tool call in slot t.
ToolGraded(t, resolved) ==
  /\ tasks[t].op = "handleTransportEvent"
  /\ tasks[t].pc = "grade"
  /\ Commit(toolGraded(Begin("tool.grade", t), t, resolved))

\* cardsInfo settles for the tool call in slot t.
ToolFetched(t, resolved, found) ==
  /\ tasks[t].op = "handleTransportEvent"
  /\ tasks[t].pc = "fetch"
  /\ Commit(toolFetched(Begin("tool.fetch", t), t, resolved,
                        InfoFor(tasks[t].nextId, found)))

\* A live session with the listeners attached reports an error.
SessionError ==
  /\ \E i \in listening : sessions[i] = "live"
  /\ Commit(sessionError(Begin("session.error", 0)))

\* One second passes while the badge timeout is armed.
Tick ==
  /\ evalTimer > 0
  /\ Commit(tick(Begin("tick", 0)))

Next ==
  \/ \E skipGreeting \in BOOLEAN : Connect(skipGreeting)
  \/ \E t \in Slots, granted \in BOOLEAN : ConnectMic(t, granted)
  \/ \E t \in Slots, resolved \in BOOLEAN : ConnectHandshake(t, resolved)
  \/ Disconnect
  \/ \E deckName \in Decks \cup { NULL } : StartStudySession(deckName)
  \/ \E t \in Slots, resolved \in BOOLEAN, found \in BOOLEAN :
        StartFetch1(t, resolved, found)
  \/ \E t \in Slots, resolved \in BOOLEAN, dueCards \in DueLists :
        StartDue(t, resolved, dueCards)
  \/ \E t \in Slots, resolved \in BOOLEAN, found \in BOOLEAN :
        StartFetch2(t, resolved, found)
  \/ \E event \in Events : TransportEvent(event)
  \/ \E t \in Slots, resolved \in BOOLEAN : ToolGraded(t, resolved)
  \/ \E t \in Slots, resolved \in BOOLEAN, found \in BOOLEAN :
        ToolFetched(t, resolved, found)
  \/ SessionError
  \/ Tick

\* Every call may overlap every suspended one, and time passes.
SpecOverlap == Init /\ [][Next]_vars

\* The connect button is rendered only while the hook is neither connected
\* nor connecting (ConnectionCard, lines 70-75).
ConnectOffered == ~isConnected /\ ~isConnecting

\* Calls arrive one at a time, as section 5 of the design asks of the
\* callers: a call or an event is taken only when no call is suspended.
\* The badge timeout is left to the specifications that follow time.
ConnectSerial == AllIdle /\ ConnectOffered /\ \E skipGreeting \in BOOLEAN : Connect(skipGreeting)
DisconnectSerial == AllIdle /\ Disconnect
StartStudySessionSerial ==
  AllIdle /\ \E deckName \in Decks \cup { NULL } : StartStudySession(deckName)
TransportEventSerial == AllIdle /\ \E event \in Events : TransportEvent(event)

NextSerial ==
  \/ ConnectSerial
  \/ \E t \in Slots, granted \in BOOLEAN : ConnectMic(t, granted)
  \/ \E t \in Slots, resolved \in BOOLEAN : ConnectHandshake(t, resolved)
  \/ DisconnectSerial
  \/ StartStudySessionSerial
  \/ \E t \in Slots, resolved \in BOOLEAN, found \in BOOLEAN :
        StartFetch1(t, resolved, found)
  \/ \E t \in Slots, resolved \in BOOLEAN, dueCards \in DueLists :
        StartDue(t, resolved, dueCards)
  \/ \E t \in Slots, resolved \in BOOLEAN, found \in BOOLEAN :
        StartFetch2(t, resolved, found)
  \/ TransportEventSerial
  \/ \E t \in Slots, resolved \in BOOLEAN : ToolGraded(t, resolved)
  \/ \E t \in Slots, resolved \in BOOLEAN, found \in BOOLEAN :
        ToolFetched(t, resolved, found)

Spec == Init /\ [][NextSerial]_vars

\* The calls arrive one at a time, except disconnect(): the End Session
\* button stays enabled while a call is suspended.
NextInterrupted == NextSerial \/ Disconnect
SpecInterrupted == Init /\ [][NextInterrupted]_vars

\* The study session with the transport's events arriving at any moment,
\* a tool call suspended or not; the calls of the user interface are
\* serial and the session is not ended.
NextHandlers ==
  \/ StartStudySessionSerial
  \/ \E t \in Slots, granted \in BOOLEAN : ConnectMic(t, granted)
  \/ \E t \in Slots, resolved \in BOOLEAN : ConnectHandshake(t, resolved)
  \/ \E t \in Slots, resolved \in BOOLEAN, found \in BOOLEAN :
        StartFetch1(t, resolved, found)
  \/ \E t \in Slots, resolved \in BOOLEAN, dueCards \in DueLists :
        StartDue(t, resolved, dueCards)
  \/ \E t \in Slots, resolved \in BOOLEAN, found \in BOOLEAN :
        StartFetch2(t, resolved, found)
  \/ \E event \in Events : TransportEvent(event)
  \/ \E t \in Slots, resolved \in BOOLEAN : ToolGraded(t, resolved)
  \/ \E t \in Slots, resolved \in BOOLEAN, found \in BOOLEAN :
        ToolFetched(t, resolved, found)
SpecHandlers == Init /\ [][NextHandlers]_vars

\* The verdict badge: a mock study session with serial calls, and time
\* passing while the badge timeout is armed.
StartMockSerial == AllIdle /\ StartStudySession(NULL)
NextBadge ==
  \/ StartMockSerial
  \/ \E t \in Slots, granted \in BOOLEAN : ConnectMic(t, granted)
  \/ \E t \in Slots, resolved \in BOOLEAN : ConnectHandshake(t, resolved)
  \/ TransportEventSerial
  \/ Tick
SpecBadge == Init /\ [][NextBadge]_vars

\* The connection alone: connect(), disconnect() and startStudySession()
\* without a deck are called at any moment, calls in flight or not, and the
\* session may report an error.
NextConnection ==
  \/ \E skipGreeting \in BOOLEAN : Connect(skipGreeting)
  \/ \E t \in Slots, granted \in BOOLEAN : ConnectMic(t, granted)
  \/ \E t \in Slots, resolved \in BOOLEAN : ConnectHandshake(t, resolved)
  \/ Disconnect
  \/ StartStudySession(NULL)
  \/ SessionError
SpecConnection == Init /\ [][NextConnection]_vars
\* ==================================================================
\* The claims
\* ==================================================================
ToolCallEvents ==
  { e \in Events : e.type = "response.function_call_arguments.done" }
Outputs(s) ==
  { s.sent[i] : i \in { j \in 1..Len(s.sent) : s.sent[j].type = "function_call_output" } }
SentOutputs == Outputs([sent |-> sent])
Malformed(argsStr) ==
  \/ JSONparse(argsStr).threw
  \/ JSONparse(argsStr).user_response_quality \notin VerdictEnum

\* The tool call events Spec can take next that name the declared tool.
CallsOffered ==
  { e \in ToolCallEvents :
      AllIdle /\ CanEmit(e) /\ toolCallNames[e.call_id] = ToolName }
Handled(e) ==
  handleTransportEvent(BeginWith("handleTransportEvent", NewSlot, e.arguments),
                       NewSlot, e)

\* A call run from the state s to its end, every await resolving.
RunCall(s, t, e, found) ==
  LET a == handleTransportEvent(s, t, e)
      b == IF a.tasks[t].pc = "grade" THEN toolGraded(a, t, TRUE) ELSE a
  IN IF b.tasks[t].pc = "fetch"
     THEN toolFetched(b, t, TRUE, InfoFor(b.tasks[t].nextId, found))
     ELSE b

\* Every block that can run next in Spec and may end a tool call: the card
\* and the queue the call found when it was taken up, and the state after.
Servicing(cardBefore, queueBefore, after) ==
  [ cardBefore |-> cardBefore, queueBefore |-> queueBefore, after |-> after ]
Servicings ==
  { Servicing(currentCardRef, realQueueRef, Handled(e)) : e \in CallsOffered }
  \cup { Servicing(tasks[t].cardBefore, tasks[t].queueBefore,
                   toolGraded(Begin("tool.grade", t), t, TRUE))
         : t \in { u \in Slots : tasks[u].pc = "grade" } }
  \cup { Servicing(tasks[x[1]].cardBefore, tasks[x[1]].queueBefore,
                   toolFetched(Begin("tool.fetch", x[1]), x[1], TRUE,
                               InfoFor(tasks[x[1]].nextId, x[2])))
         : x \in { u \in Slots : tasks[u].pc = "fetch" } \X BOOLEAN }

\* C1, as claimed: the answered_card_back of every result sent is the back
\* text of the card that was current when the call was taken up.
C1_AnsweredBackIsBackBefore ==
  \A x \in Servicings : \A o \in Outputs(x.after) :
     x.cardBefore # NoCard => o.answered_card_back = x.cardBefore.Back

\* C1, amended: with the calls serviced one at a time, the
\* answered_card_back of every result sent is the back text of the card
\* that was current when the call was taken up, whatever card the call
\* fetched, and it is null when that back text is empty or when no card was
\* current.
C1_AnsweredBackIsBackBeforeOrNull ==
  \A x \in Servicings : \A o \in Outputs(x.after) :
     o.answered_card_back = orNull(x.cardBefore.Back)

\* C1 witness: a call has just returned a card, and the back text it
\* reports is not the back text of that card.
C1_Witness ==
  \E o \in SentOutputs :
     /\ o.next_front # EndOfSession
     /\ o.answered_card_back # NULL
     /\ o.answered_card_back # o.next_back

\* C2, as claimed: in a remote session every serviced call shortens the due
\* queue by exactly one.
C2_EveryCallShortensQueue ==
  \A x \in Servicings : \A o \in Outputs(x.after) :
     x.after.activeDeckNameRef # NULL =>
        Len(x.after.realQueueRef) = Len(x.queueBefore) - 1

\* C2, amended: in a remote session, with the calls serviced one at a time,
\* a call that returns a card shortens the due queue by exactly one, and a
\* call that returns the END OF SESSION sentinel leaves it as it was.
C2_CardShortensQueueSentinelKeeps ==
  \A x \in Servicings : \A o \in Outputs(x.after) :
     x.after.activeDeckNameRef # NULL =>
        /\ o.next_front # EndOfSession =>
              Len(x.after.realQueueRef) = Len(x.queueBefore) - 1
        /\ o.next_front = EndOfSession =>
              x.after.realQueueRef = x.queueBefore

\* C2 witness: a remote call has just returned a card.
C2_Witness ==
  /\ last.block = "tool.fetch"
  /\ activeDeckNameRef # NULL
  /\ \E o \in SentOutputs : o.next_front # EndOfSession

\* C3: a serviced call that returns a card leaves a current card with
\* another identifier than the one it found.
C3_CurrentCardChanges ==
  \A x \in Servicings : \A o \in Outputs(x.after) :
     (x.cardBefore # NoCard /\ o.next_front # EndOfSession) =>
        x.after.currentCardRef.cardId # x.cardBefore.cardId

\* C4: in mock mode the current card after the start is the first card of
\* the deck, and a call serviced while the k-th card is current returns the
\* (k+1)-th card and the back text of the k-th.
MockPosition(card) ==
  IF \E k \in 1..Len(MOCK_DECK) : MOCK_DECK[k].id = card.cardId
  THEN CHOOSE k \in 1..Len(MOCK_DECK) : MOCK_DECK[k].id = card.cardId
  ELSE 0
StudyStarted ==
  \E i \in 1..Len(sent) : sent[i].type = "session.update" /\ sent[i].tools # << >>
C4_MockWalksDeck ==
  (isStudyMode /\ activeDeckNameRef = NULL) =>
     /\ StudyStarted => currentCardRef.cardId = MOCK_DECK[1].id
     /\ \A e \in CallsOffered : \A o \in Outputs(Handled(e)) :
           LET k == MockPosition(currentCardRef)
           IN (k >= 1 /\ k < Len(MOCK_DECK)) =>
                 /\ o.next_front = MOCK_DECK[k + 1].front
                 /\ o.answered_card_back = MOCK_DECK[k].back

\* C5: when findDueCards answers a startStudySession with no due card, the
\* session starts with no current card, and the first call returns the
\* END OF SESSION sentinel.
C5_EmptyDeckStartsWithNoCard ==
  \A t \in { u \in Slots : tasks[u].op = "startStudySession" /\ tasks[u].pc = "due" } :
     LET r == startDue(Begin("start.due", t), t, << >>)
     IN /\ r.currentCardRef = NoCard
        /\ r.currentCard = NoCard
        /\ \A e \in ToolCallEvents : \A o \in Outputs(RunCall(r, t, e, TRUE)) :
              o.next_front = EndOfSession /\ o.next_back = EndOfSession

\* C6: in a study session, a call whose arguments do not parse, or whose
\* verdict is outside the enum, throws nothing out of the handler and leaves
\* the due queue and the current card as they were.
C6_MalformedCallChangesNothing ==
  \A e \in CallsOffered :
     (isStudyMode /\ Malformed(e.arguments)) =>
        \A found \in BOOLEAN :
           LET r == RunCall(BeginWith("handleTransportEvent", NewSlot, e.arguments),
                            NewSlot, e, found)
           IN /\ r.uncaught = "none"
              /\ r.realQueueRef = realQueueRef
              /\ r.currentCardRef = currentCardRef
              /\ r.currentCard = currentCard

\* C7: in a study session, a call whose verdict is outside the enum is
\* rejected: no answer is submitted to the card source, no verdict is
\* published, and no result reporting success is sent.
C7_InvalidVerdictRejected ==
  \A e \in CallsOffered :
     (isStudyMode /\ ~JSONparse(e.arguments).threw
        /\ JSONparse(e.arguments).user_response_quality \notin VerdictEnum) =>
        LET r == Handled(e)
        IN /\ r.answers = << >>
           /\ r.evaluation = evaluation
           /\ \A o \in Outputs(r) : o.status # "success"

\* C8: startStudySession() called without a deck name while a remote deck
\* is bound keeps that binding and goes on in real mode: the mock source
\* is not touched, and the due cards are asked of the deck that was bound.
C8_AbsentDeckKeepsBinding ==
  /\ (AllIdle /\ activeDeckNameRef # NULL) =>
        LET t == NewSlot
            r == startStudySession(BeginWith("startStudySession", t, NULL), t, NULL)
        IN /\ r.activeDeckNameRef = activeDeckNameRef
           /\ r.currentIndex = currentIndex
           /\ r.tasks[t].op = "startStudySession"
           /\ r.tasks[t].pc \in { "fetch1", "due" }
           /\ r.tasks[t].pc = "due" => r.tasks[t].deckName = activeDeckNameRef
  /\ \A t \in { u \in Slots : tasks[u].op = "startStudySession" /\ tasks[u].pc = "fetch1" } :
        \A found \in BOOLEAN :
           LET r == startAfterFirst(
                      fetchNextCardResume(Begin("start.fetch1", t),
                                          InfoFor(tasks[t].nextId, found)).st, t)
           IN /\ r.activeDeckNameRef = activeDeckNameRef
              /\ r.currentIndex = currentIndex
              /\ r.tasks[t].pc = "due"
              /\ r.tasks[t].deckName = activeDeckNameRef

\* C8 witness: startStudySession() without a deck name has just run on a
\* hook that is bound to a remote deck.
C8_Witness ==
  /\ last.block = "startStudySession"
  /\ last.input = NULL
  /\ activeDeckNameRef \in Decks
  /\ \E t \in Slots : tasks[t].op = "startStudySession" /\ tasks[t].pc = "due"

\* C9, as claimed: disconnect() with no session changes nothing the hook
\* exposes, the transcript included, and does not throw.
C9_DisconnectWithoutSessionIsNoOp ==
  sessionRef = 0 =>
     LET r == disconnect(Begin("disconnect", 0))
     IN /\ r.uncaught = "none"
        /\ r.debugInfo = << >>
        /\ r.isConnected = isConnected
        /\ r.isStudyMode = isStudyMode
        /\ r.currentCard = currentCard
        /\ r.activeDeckNameRef = activeDeckNameRef

\* C9, amended: disconnect() with no session does not throw, closes no
\* session, stops no stream, sends nothing and leaves the due queue, the
\* card of the tool, the call names, the verdict and the error as they
\* were; it does append the line "Disconnected." to the transcript and puts
\* the connected flag, the study flag, the deck binding and the displayed
\* card to their disconnected values.
C9_DisconnectWithoutSessionIsSafe ==
  sessionRef = 0 =>
     LET r == disconnect(Begin("disconnect", 0))
     IN /\ r.uncaught = "none"
        /\ r.sessions = sessions /\ r.liveStreams = liveStreams
        /\ r.sessionRef = 0 /\ r.streamRef = streamRef
        /\ r.sent = << >>
        /\ r.realQueueRef = realQueueRef /\ r.currentCardRef = currentCardRef
        /\ r.toolCallNames = toolCallNames /\ r.evaluation = evaluation
        /\ r.error = error /\ r.isConnecting = isConnecting
        /\ r.tasks = tasks
        /\ r.debugInfo = << "Disconnected." >>
        /\ ~r.isConnected /\ ~r.isStudyMode
        /\ r.activeDeckNameRef = NULL /\ r.currentCard = NoCard

\* C9 witness: disconnect() has just run and found no session.
C9_Witness ==
  /\ last.block = "disconnect"
  /\ last.session = 0
  /\ sessionRef = 0

\* C10: disconnect() on a connected hook stops the stream, closes the
\* session, and leaves no deck binding, an empty due queue, no current card
\* and the hook disconnected.
C10_DisconnectClearsSession ==
  (AllIdle /\ isConnected /\ sessionRef # 0) =>
     LET r == disconnect(Begin("disconnect", 0))
     IN /\ streamRef \notin r.liveStreams /\ r.streamRef = 0
        /\ r.sessions[sessionRef] = "closed" /\ r.sessionRef = 0
        /\ ~r.isConnected /\ ~r.isStudyMode
        /\ r.activeDeckNameRef = NULL
        /\ r.realQueueRef = << >>
        /\ r.currentCardRef = NoCard
        /\ r.currentCard = NoCard

\* C11: disconnect() on a hook that holds a stream stops that stream and
\* forgets it, throws nothing and runs to its last line, whether the
\* teardown of the session returns or throws.
C11_DisconnectReleasesStream ==
  (sessionRef # 0 /\ streamRef # 0) =>
     \A threw \in BOOLEAN :
        LET r == disconnectCall(Begin("disconnect", 0), threw)
        IN /\ streamRef \notin r.liveStreams
           /\ r.streamRef = 0
           /\ r.sessionRef = 0
           /\ r.uncaught = "none"
           /\ r.debugInfo = << "Microphone stream stopped.", "Disconnected." >>

\* C11 witness: disconnect() has just run on a hook that held a session,
\* the teardown threw, and no stream is left capturing.
C11_Witness ==
  /\ last.block = "disconnect"
  /\ last.input = TeardownThrows
  /\ last.session # 0
  /\ streamRef = 0
  /\ liveStreams = {}

\* A suspended tool call run to its end, every await resolving.
ResumeCall(t, found) ==
  LET a == IF tasks[t].pc = "grade"
           THEN toolGraded(Begin("tool.grade", t), t, TRUE)
           ELSE Begin("tool.fetch", t)
  IN IF a.tasks[t].pc = "fetch"
     THEN toolFetched(a, t, TRUE, InfoFor(a.tasks[t].nextId, found))
     ELSE a

\* The tool calls suspended in a card source request whose session
\* disconnect() has closed since.
SuspendedOnClosed ==
  { t \in Slots : /\ tasks[t].op = "handleTransportEvent"
                  /\ tasks[t].pc \in { "grade", "fetch" }
                  /\ sessions[tasks[t].session] = "closed" }

\* C12: when a tool call resumes after disconnect() has closed its session,
\* the current card, the displayed card, the due queue and the verdict stay
\* as disconnect() left them.
C12_ResumeAfterDisconnectDiscarded ==
  \A t \in SuspendedOnClosed : \A found \in BOOLEAN :
     LET r == ResumeCall(t, found)
     IN /\ r.currentCardRef = currentCardRef
        /\ r.currentCard = currentCard
        /\ r.realQueueRef = realQueueRef
        /\ r.evaluation = evaluation

\* The connection attempts in flight: connect() calls, direct or made by
\* startStudySession, suspended in getUserMedia or in session.connect.
InFlight == { t \in Slots : tasks[t].pc \in { "mic", "handshake" } }

\* C13: at most one connection attempt is in flight.
C13_OneConnectInFlight == Cardinality(InFlight) <= 1

\* The session objects created and not closed.
OpenSessions == { i \in 1..MaxSessions : sessions[i] \in { "new", "live" } }

\* C14: at most one transport session is open and at most one captured
\* stream is live, with connect() called only while the hook is neither
\* connected nor connecting and no other call is running.
C14_OneSessionOneStream ==
  /\ Cardinality(OpenSessions) <= 1
  /\ Cardinality(liveStreams) <= 1

\* The study state of a record is that of the current state.
StudyStateKept(r) ==
  /\ r.isStudyMode = isStudyMode
  /\ r.activeDeckNameRef = activeDeckNameRef
  /\ r.realQueueRef = realQueueRef
  /\ r.currentCardRef = currentCardRef
  /\ r.currentCard = currentCard
  /\ r.currentIndex = currentIndex

\* C15: startStudySession called on a hook that is neither connected nor
\* connecting first calls connect with the greeting skipped: it is then
\* suspended in that connect, or the connect has failed at once; and when
\* the connect fails, at once or later, the study state is as it was,
\* nothing was sent and the call is over.
C15_StartConnectsFirst ==
  /\ (AllIdle /\ ~isConnected /\ ~isConnecting) =>
        \A deckName \in Decks \cup { NULL } :
           LET t == NewSlot
               r == startStudySession(BeginWith("startStudySession", t, deckName),
                                      t, deckName)
           IN /\ StudyStateKept(r)
              /\ r.sent = << >>
              /\ \/ /\ r.tasks[t].op = "startStudySession"
                    /\ r.tasks[t].pc = "mic"
                    /\ r.tasks[t].skipGreeting
                 \/ r.tasks[t] = Idle /\ r.error # NULL
  /\ \A t \in { u \in Slots : tasks[u].op = "startStudySession" /\ tasks[u].pc = "mic" } :
        LET r == afterConnect(connectMic(Begin("connect.mic", t), t, FALSE),
                              t, tasks[t].op)
        IN StudyStateKept(r) /\ r.sent = << >> /\ r.tasks[t] = Idle
  /\ \A t \in { u \in Slots : tasks[u].op = "startStudySession"
                                /\ tasks[u].pc = "handshake" } :
        LET r == afterConnect(connectHandshake(Begin("connect.handshake", t), t, FALSE),
                              t, tasks[t].op)
        IN StudyStateKept(r) /\ r.sent = << >> /\ r.tasks[t] = Idle

\* A startStudySession has just ended in a card source request that
\* rejected: the block that ran last resumed it, ended it and sent nothing.
StartJustFailed ==
  /\ last.block \in { "start.fetch1", "start.due", "start.fetch2" }
  /\ tasks[last.task] = Idle
  /\ sent = << >>

\* C16: when the card source rejects during startStudySession, nothing is
\* thrown out of the call and the error field holds a reason.
C16_StartFailureRecorded ==
  StartJustFailed => (uncaught = "none" /\ error # NULL)

\* What connect() leaves when it fails: the hook neither connected nor
\* connecting, a reason in the error field, the failure in the transcript,
\* and false returned.
FailedConnect(r) ==
  /\ r.ret = "false"
  /\ ~r.st.isConnected /\ ~r.st.isConnecting
  /\ r.st.error # NULL
  /\ \E i \in 1..Len(r.st.debugInfo) : r.st.debugInfo[i] = "Error: connect"
  /\ r.st.uncaught = "none"

\* C17: connect() fails in this way at each of its steps: with no API key,
\* when getUserMedia rejects, and when session.connect rejects.
C17_ConnectFailureRecorded ==
  /\ (AllIdle /\ ~apiKey) =>
        \A skipGreeting \in BOOLEAN :
           FailedConnect(connectBegin(Begin("connect", NewSlot), NewSlot,
                                      skipGreeting, "connect", NULL))
  /\ \A t \in { u \in Slots : tasks[u].pc = "mic" } :
        FailedConnect(connectMic(Begin("connect.mic", t), t, FALSE))
  /\ \A t \in { u \in Slots : tasks[u].pc = "handshake" } :
        FailedConnect(connectHandshake(Begin("connect.handshake", t), t, FALSE))

\* C17 witness: a connect() has just failed in the handshake.
C17_Witness ==
  /\ last.block = "connect.handshake"
  /\ error = "Connection failed"
  /\ ~isConnected /\ ~isConnecting
  /\ tasks[last.task] = Idle

\* The tool calls suspended in a card source request, and what each leaves
\* when that request rejects.
SuspendedCalls ==
  { t \in Slots : tasks[t].op = "handleTransportEvent"
                  /\ tasks[t].pc \in { "grade", "fetch" } }
FailedCall(t) ==
  IF tasks[t].pc = "grade"
  THEN toolGraded(Begin("tool.grade", t), t, FALSE)
  ELSE toolFetched(Begin("tool.fetch", t), t, FALSE, << >>)

\* C18: when the card source rejects the grade or the fetch of a tool
\* call, nothing is thrown out of the handler, the line "Tool Error" is
\* appended to the transcript, and the connected flag, the study flag, the
\* session, its listener, the stream and the call names are as before; a
\* later call of the declared tool is serviced and gets its result.
C18_ToolFailureContained ==
  \A t \in SuspendedCalls :
     LET r == FailedCall(t)
     IN /\ r.uncaught = "none"
        /\ \E i \in 1..Len(r.debugInfo) : r.debugInfo[i] = "Tool Error"
        /\ r.isConnected = isConnected /\ r.isConnecting = isConnecting
        /\ r.isStudyMode = isStudyMode
        /\ r.sessionRef = sessionRef /\ r.sessions = sessions
        /\ r.listening = listening
        /\ r.streamRef = streamRef /\ r.liveStreams = liveStreams
        /\ r.toolCallNames = toolCallNames
        /\ r.tasks[t] = Idle
        /\ \A e \in ToolCallEvents :
              (r.toolCallNames[e.call_id] = ToolName /\ ~JSONparse(e.arguments).threw) =>
                 \E o \in Outputs(RunCall(r, t, e, TRUE)) : o.call_id = e.call_id

\* C18 witness: the card source has just rejected a request of a tool
\* call, which ended without a result, and the session is still live.
C18_Witness ==
  /\ last.block \in { "tool.grade", "tool.fetch" }
  /\ tasks[last.task] = Idle
  /\ sent = << >>
  /\ isConnected /\ sessionRef # 0 /\ sessions[sessionRef] = "live"

\* C19: when a live session reports an error, the hook is left as
\* disconnect() leaves it: no session, not connected, not studying, no deck
\* binding, no displayed card.
C19_TransportErrorResets ==
  (\E i \in listening : sessions[i] = "live") =>
     LET r == sessionError(Begin("session.error", 0))
     IN /\ r.sessionRef = 0
        /\ ~r.isConnected
        /\ ~r.isStudyMode
        /\ r.activeDeckNameRef = NULL
        /\ r.currentCard = NoCard

\* C20: in a study session, once the result of a call has been sent, the
\* arguments event of the same call identifier delivered again is not
\* serviced: no answer is submitted, no result is sent, and the current
\* card and the due queue stay as they are.
C20_CallServicedOnce ==
  \A o \in SentOutputs : \A e \in ToolCallEvents :
     (AllIdle /\ isStudyMode /\ CanEmit(e) /\ e.call_id = o.call_id) =>
        LET r == RunCall(BeginWith("handleTransportEvent", NewSlot, e.arguments),
                         NewSlot, e, TRUE)
        IN /\ r.sent = << >>
           /\ r.answers = << >>
           /\ r.currentCardRef = currentCardRef
           /\ r.realQueueRef = realQueueRef

\* A suspended tool call taken one await further, the request resolving.
ResumeStep(t, found) ==
  IF tasks[t].pc = "grade"
  THEN toolGraded(Begin("tool.grade", t), t, TRUE)
  ELSE toolFetched(Begin("tool.fetch", t), t, TRUE, InfoFor(tasks[t].nextId, found))

\* C21: a tool call taken up while an earlier one is still suspended does
\* not overtake it: while the earlier call is suspended, the later one
\* neither advances the due queue nor sends its result.
C21_CallsServicedInOrder ==
  \A t \in SuspendedCalls :
     tasks[t].after # {} =>
        \A found \in BOOLEAN :
           LET r == ResumeStep(t, found)
           IN /\ Outputs(r) = {}
              /\ r.realQueueRef = realQueueRef
              /\ r.currentCardRef = currentCardRef

\* C22: while a tool call is suspended in a card source request, an event
\* delivered by the transport is not handled: the call names, the due
\* queue and the current card stay as they are, no answer is submitted
\* and no further call is taken up.
C22_EventsHandledOneAtATime ==
  SuspendedCalls # {} =>
     \A e \in Events :
        CanEmit(e) =>
           LET r == handleTransportEvent(
                      BeginWith("handleTransportEvent", NewSlot, e.arguments),
                      NewSlot, e)
           IN /\ r.toolCallNames = toolCallNames
              /\ r.realQueueRef = realQueueRef
              /\ r.currentCardRef = currentCardRef
              /\ r.answers = << >>
              /\ r.tasks = tasks

\* The card source has no card left: the due queue is empty in real mode,
\* the cursor is past the last card in mock mode.
Exhausted ==
  IF activeDeckNameRef # NULL
  THEN realQueueRef = << >>
  ELSE currentIndex >= Len(MOCK_DECK)

\* C23: the next card of every result sent has a front and a back, and
\* when the card source is exhausted both are "END OF SESSION".
C23_ExhaustedGivesSentinel ==
  \A x \in Servicings : \A o \in Outputs(x.after) :
     /\ o.next_front # NULL /\ o.next_back # NULL
     /\ Exhausted => (o.next_front = EndOfSession /\ o.next_back = EndOfSession)

\* C23 witness: a call serviced on an exhausted card source has just
\* returned the sentinel.
C23_Witness ==
  /\ Exhausted
  /\ \E o \in SentOutputs :
        o.next_front = EndOfSession /\ o.next_back = EndOfSession

\* C24: every tool call that sets a verdict, the one displayed or another,
\* leaves the badge timeout with its full 3 seconds to run.
C24_VerdictRestartsTimer ==
  \A e \in CallsOffered :
     (isStudyMode /\ ~JSONparse(e.arguments).threw) =>
        LET r == Handled(e)
        IN /\ r.evaluation = JSONparse(e.arguments).user_response_quality
           /\ r.evalTimer = EvalDelay

\* A startStudySession suspended in findDueCards, run to its end with the
\* list dueCards and the card of its head found.
StartFrom(t, dueCards) ==
  LET a == startDue(Begin("start.due", t), t, dueCards)
  IN IF a.tasks[t].pc = "fetch2"
     THEN startAfterSecond(
            fetchNextCardResume(a, InfoFor(a.tasks[t].nextId, TRUE)).st, t)
     ELSE a

\* C25: whatever earlier sessions left, a startStudySession that succeeds
\* in real mode ends with the head of the list just received as current
\* card and the rest of it as due queue, and one that succeeds in mock
\* mode ends with the first card of the deck as current card and the next
\* tool call returning the second.
C25_StartReinitialises ==
  /\ \A t \in { u \in Slots : tasks[u].op = "startStudySession" /\ tasks[u].pc = "due" } :
        \A dueCards \in DueLists \ { << >> } :
           LET r == StartFrom(t, dueCards)
           IN /\ r.currentCardRef = RemoteCard(dueCards[1])
              /\ r.currentCard = RemoteCard(dueCards[1])
              /\ r.realQueueRef = Tail(dueCards)
  /\ (StudyStarted /\ activeDeckNameRef = NULL) =>
        /\ currentCardRef.cardId = MOCK_DECK[1].id
        /\ \A e \in CallsOffered :
              ~JSONparse(e.arguments).threw =>
                 \A o \in Outputs(Handled(e)) : o.next_front = MOCK_DECK[2].front

\* C26: the due queue changes only when findDueCards has just populated
\* it, or by losing its head while the card of that head becomes the
\* current card.
C26_QueueOnlyLosesFetchedHead ==
  [][ realQueueRef' # realQueueRef =>
        \/ last'.block = "start.due"
        \/ /\ realQueueRef # << >>
           /\ realQueueRef' = Tail(realQueueRef)
           /\ currentCardRef' = RemoteCard(Head(realQueueRef)) ]_vars

\* C27: a call of the declared tool taken up on a live session and run to
\* its end, every request of the card source resolving, has sent a
\* function_call_output for its call identifier, unparseable arguments
\* included.
C27_EveryCallGetsOutput ==
  \A e \in CallsOffered :
     isStudyMode =>
        LET r == RunCall(BeginWith("handleTransportEvent", NewSlot, e.arguments),
                         NewSlot, e, TRUE)
        IN /\ r.tasks[NewSlot] = Idle
           /\ \E o \in Outputs(r) : o.call_id = e.call_id

\* C28: in real mode, a call with a verdict of the enum taken up while a
\* card is current submits exactly one answer, for the identifier of that
\* card, with ease 3 for correct and ease 1 for incorrect.
C28_GradeMapsVerdictToEase ==
  \A e \in CallsOffered :
     LET verdict == JSONparse(e.arguments).user_response_quality
     IN (/\ activeDeckNameRef # NULL /\ currentCardRef # NoCard
         /\ ~JSONparse(e.arguments).threw /\ verdict \in VerdictEnum) =>
           Handled(e).answers =
              << [ cardId |-> currentCardRef.cardId,
                   ease |-> IF verdict = "correct" THEN 3 ELSE 1 ] >>

\* C28 witness: a call has just submitted the answer of a correct verdict
\* for the current card of a remote deck.
C28_Witness ==
  /\ activeDeckNameRef # NULL
  /\ last.block = "handleTransportEvent"
  /\ answers = << [ cardId |-> currentCardRef.cardId, ease |-> 3 ] >>

\* The result of the k-th getNextCard after startSession() or reset().
RECURSIVE NthAfterReset(_)
NthAfterReset(k) ==
  IF k = 1 THEN getNextCard(0)
  ELSE getNextCard(NthAfterReset(k - 1).currentIndex)

\* C29: the cursor of the mock source stays between 0 and the deck size;
\* getNextCard hands out the card at the cursor and moves the cursor by
\* one, taking one off remainingCards, or past the last card reports
\* "Completed" with no card and leaves the cursor; and after a reset the
\* k-th call hands out the k-th card of the deck, then no card.
C29_MockSourceWalksDeckOnce ==
  /\ currentIndex \in 0..Len(MOCK_DECK)
  /\ remainingCards(currentIndex) \in 0..Len(MOCK_DECK)
  /\ LET r == getNextCard(currentIndex)
     IN IF currentIndex < Len(MOCK_DECK)
        THEN /\ r.card.cardId = MOCK_DECK[currentIndex + 1].id
             /\ r.card.Front = MOCK_DECK[currentIndex + 1].front
             /\ r.card.Back = MOCK_DECK[currentIndex + 1].back
             /\ r.currentIndex = currentIndex + 1
             /\ remainingCards(r.currentIndex) = remainingCards(currentIndex) - 1
        ELSE /\ r.card = NoCard
             /\ r.progress = "Completed"
             /\ r.currentIndex = currentIndex
             /\ remainingCards(r.currentIndex) = 0
  /\ \A k \in 1..(Len(MOCK_DECK) + 2) :
        IF k <= Len(MOCK_DECK)
        THEN /\ NthAfterReset(k).card.cardId = MOCK_DECK[k].id
             /\ remainingCards(NthAfterReset(k).currentIndex) = Len(MOCK_DECK) - k
        ELSE NthAfterReset(k).card = NoCard

\* C29 witness: the mock deck has been walked to its end and a call has
\* just been told that no card is left.
C29_Witness ==
  /\ activeDeckNameRef = NULL
  /\ currentIndex = Len(MOCK_DECK)
  /\ \E o \in SentOutputs : o.next_front = EndOfSession

\* C30: a call taken up in real mode while a card is current submits the
\* answer for that card and suspends with the due queue and the current
\* card untouched; and when the answer is rejected the call ends there,
\* with no result sent and the due queue and the current card as the call
\* found them.
C30_GradeBeforeAdvance ==
  /\ \A e \in CallsOffered :
        (/\ activeDeckNameRef # NULL /\ currentCardRef # NoCard
         /\ ~JSONparse(e.arguments).threw) =>
           LET r == Handled(e)
           IN /\ Len(r.answers) = 1
              /\ r.answers[1].cardId = currentCardRef.cardId
              /\ r.tasks[NewSlot].pc = "grade"
              /\ r.realQueueRef = realQueueRef
              /\ r.currentCardRef = currentCardRef
              /\ r.sent = << >>
  /\ \A t \in { u \in SuspendedCalls : tasks[u].pc = "grade" } :
        LET r == toolGraded(Begin("tool.grade", t), t, FALSE)
        IN /\ r.tasks[t] = Idle
           /\ r.sent = << >>
           /\ r.realQueueRef = tasks[t].queueBefore
           /\ r.currentCardRef = tasks[t].cardBefore
           /\ r.currentCard = currentCard

\* C30 witness: the answer of a call has just been rejected while cards
\* were still due, and the call has ended without a result.
C30_Witness ==
  /\ last.block = "tool.grade"
  /\ tasks[last.task] = Idle
  /\ sent = << >>
  /\ realQueueRef # << >>
  /\ currentCardRef # NoCard

\* The arguments events the transport can deliver next, the calls arriving
\* one at a time.
ArgsOffered == { e \in ToolCallEvents : AllIdle /\ CanEmit(e) }

\* C31: a call is serviced only when the registry holds the declared tool
\* for its identifier, which only a handled announce event writes: every
\* call suspended or answered has that entry; and an arguments event whose
\* identifier has no entry appends one line to the transcript and changes
\* nothing else: no answer, no message, the verdict, the due queue, the
\* cards, the mock cursor and the suspended calls as before, nothing thrown.
C31_UnannouncedCallOnlyLogged ==
  /\ \A t \in SuspendedCalls : toolCallNames[tasks[t].call_id] = ToolName
  /\ \A o \in SentOutputs : toolCallNames[o.call_id] = ToolName
  /\ \A e \in ArgsOffered :
        toolCallNames[e.call_id] = NULL =>
           LET r == Handled(e)
           IN /\ r.debugInfo = << "[Tool Executing]" >>
              /\ r.sent = << >> /\ r.answers = << >>
              /\ r.uncaught = "none"
              /\ r.evaluation = evaluation /\ r.evalTimer = evalTimer
              /\ StudyStateKept(r)
              /\ r.toolCallNames = toolCallNames
              /\ r.tasks = tasks

\* C31 witness: in a study session with a current card, an arguments
\* event has just been handled while the registry holds no entry.
C31_Witness ==
  /\ last.block = "handleTransportEvent"
  /\ last.input \in ArgStrings
  /\ \A c \in CallIds : toolCallNames[c] = NULL
  /\ isStudyMode /\ currentCardRef # NoCard
  /\ sent = << >> /\ answers = << >>

\* A call run from the state s until its first request of the card source,
\* which rejects.
RunCallRejected(s, t, e) ==
  LET a == handleTransportEvent(s, t, e)
  IN IF a.tasks[t].pc = "grade" THEN toolGraded(a, t, FALSE)
     ELSE IF a.tasks[t].pc = "fetch" THEN toolFetched(a, t, FALSE, << >>)
     ELSE a

\* C32: in a study session, a call of the declared tool that ends without
\* a result, its grade or its fetch having failed, leaves the verdict and
\* its timeout as they were before the call.
C32_FailedCallPublishesNoVerdict ==
  \A e \in CallsOffered :
     isStudyMode =>
        LET r == RunCallRejected(BeginWith("handleTransportEvent", NewSlot, e.arguments),
                                 NewSlot, e)
        IN (r.tasks[NewSlot] = Idle /\ Outputs(r) = {}) =>
              (r.evaluation = evaluation /\ r.evalTimer = evalTimer)

\* The messages m are one result for the call identifier call_id and then
\* one response trigger, on the same session.
OneResult(m, call_id) ==
  /\ Len(m) = 2
  /\ m[1].type = "function_call_output" /\ m[1].call_id = call_id
  /\ m[1].status = "success"
  /\ m[2].type = "response.create"
  /\ m[2].session = m[1].session

\* C33: a call of the declared tool whose arguments parse and whose
\* requests resolve sends, over all its steps, one result with its call
\* identifier followed by one response trigger, and it sends them in the
\* step that ends it: a step that leaves the call suspended sends nothing.
\* A call that fails, in the parse or in a request, sends nothing.
C33_OneResultThenTrigger ==
  /\ \A e \in CallsOffered :
        LET s == BeginWith("handleTransportEvent", NewSlot, e.arguments)
            h == Handled(e)
        IN /\ ~JSONparse(e.arguments).threw =>
                 \A found \in BOOLEAN :
                    LET r == RunCall(s, NewSlot, e, found)
                    IN r.tasks[NewSlot] = Idle /\ OneResult(r.sent, e.call_id)
           /\ h.tasks[NewSlot] # Idle => h.sent = << >>
           /\ (JSONparse(e.arguments).threw \/ h.tasks[NewSlot] # Idle) =>
                 RunCallRejected(s, NewSlot, e).sent = << >>
  /\ \A t \in SuspendedCalls :
        /\ FailedCall(t).sent = << >>
        /\ \A found \in BOOLEAN :
              LET r == ResumeStep(t, found)
              IN IF r.tasks[t] = Idle
                 THEN OneResult(r.sent, tasks[t].call_id)
                 ELSE r.sent = << >>

\* C33 witness: in real mode, the fetch of a call has just resolved and
\* the call has ended with one result and one response trigger.
C33_Witness ==
  /\ last.block = "tool.fetch"
  /\ activeDeckNameRef # NULL
  /\ tasks[last.task] = Idle
  /\ OneResult(sent, 1)

\* The three messages of a study session's start: the session update
\* declaring the one tool, the initial content, the response trigger.
StartMessages(m) ==
  /\ Len(m) = 3
  /\ m[1].type = "session.update" /\ m[1].tools = << ToolName >>
  /\ m[2].type = "conversation.item.create"
  /\ m[3].type = "response.create"
  /\ m[2].session = m[1].session /\ m[3].session = m[1].session

\* What a suspended startStudySession does when the request it waits for
\* settles: the microphone, the handshake, the first fetch, the due list,
\* the second fetch.
StartStep(t, resolved, found, dueCards) ==
  LET pc == tasks[t].pc
  IN IF pc = "mic"
     THEN afterConnect(connectMic(Begin("connect.mic", t), t, resolved),
                       t, "startStudySession")
     ELSE IF pc = "handshake"
     THEN afterConnect(connectHandshake(Begin("connect.handshake", t), t, resolved),
                       t, "startStudySession")
     ELSE IF pc = "fetch1"
     THEN IF resolved
          THEN startAfterFirst(
                 fetchNextCardResume(Begin("start.fetch1", t),
                                     InfoFor(tasks[t].nextId, found)).st, t)
          ELSE Finish([Begin("start.fetch1", t) EXCEPT !.uncaught = "startStudySession"], t)
     ELSE IF pc = "due"
     THEN IF resolved THEN startDue(Begin("start.due", t), t, dueCards)
          ELSE startInitFailed(Begin("start.due", t), t)
     ELSE IF resolved
          THEN startAfterSecond(
                 fetchNextCardResume(Begin("start.fetch2", t),
                                     InfoFor(tasks[t].nextId, found)).st, t)
          ELSE startInitFailed(Begin("start.fetch2", t), t)

SuspendedStarts == { t \in Slots : tasks[t].op = "startStudySession" }
StartCalls ==
  { deckName \in Decks \cup { NULL } : AllIdle /\ (sessionRef = 0 => CanConnect) }
StartCall(deckName) ==
  startStudySession(BeginWith("startStudySession", NewSlot, deckName),
                    NewSlot, deckName)

\* C34: every step of a startStudySession sends either nothing or, as the
\* step that ends the call, the three start messages in their order, the
\* session update declaring exactly the tool evaluate_and_move_next, in
\* real mode and in mock mode.  The step that ends the start with its
\* last request resolved sends them; a step that aborts the call, a
\* request having failed, sends nothing.
C34_StartSendsThree ==
  /\ \A deckName \in StartCalls :
        LET r == StartCall(deckName)
        IN /\ r.sent = << >> \/ (StartMessages(r.sent) /\ r.tasks[NewSlot] = Idle)
           /\ (sessionRef # 0 /\ deckName = NULL /\ activeDeckNameRef = NULL) =>
                 StartMessages(r.sent)
  /\ \A t \in SuspendedStarts :
        /\ \A found \in BOOLEAN, dueCards \in DueLists :
              LET r == StartStep(t, TRUE, found, dueCards)
              IN /\ r.sent = << >> \/ (StartMessages(r.sent) /\ r.tasks[t] = Idle)
                 /\ r.tasks[t] = Idle => StartMessages(r.sent)
        /\ LET r == StartStep(t, FALSE, FALSE, << >>)
           IN r.tasks[t] = Idle /\ r.sent = << >>

\* C34 witness: a start in real mode has just ended, its second fetch
\* resolved, with the three messages.
C34_Witness ==
  /\ last.block = "start.fetch2"
  /\ activeDeckNameRef # NULL
  /\ tasks[last.task] = Idle
  /\ StartMessages(sent)

\* The audio and transcript delta events a live session can deliver.
DeltaEvents ==
  { e \in Events : /\ e.type \in { "response.audio.delta",
                                    "response.audio_transcript.delta" }
                   /\ CanEmit(e) }

\* C35: handling an audio delta or a transcript delta appends nothing to
\* the transcript, sends nothing, submits no answer, throws nothing, and
\* leaves the due queue, the cards, the deck binding, the verdict and its
\* timeout, the call names, the connection flags, the error, the session
\* and the suspended calls as they were.
C35_DeltaChangesNothing ==
  \A e \in DeltaEvents :
     LET r == handleTransportEvent(
                BeginWith("handleTransportEvent", NewSlot, e.arguments), NewSlot, e)
     IN /\ r.debugInfo = << >>
        /\ r.sent = << >> /\ r.answers = << >> /\ r.uncaught = "none"
        /\ StudyStateKept(r)
        /\ r.evaluation = evaluation /\ r.evalTimer = evalTimer
        /\ r.toolCallNames = toolCallNames
        /\ r.isConnected = isConnected /\ r.isConnecting = isConnecting
        /\ r.error = error
        /\ r.sessionRef = sessionRef /\ r.sessions = sessions
        /\ r.tasks = tasks

\* C35 witness: in a real-mode study session with a card current, an
\* identifier queued and a verdict shown, the handler has just run for an
\* event that carries no arguments, as a delta does, and a delta can be
\* delivered again.
C35_Witness ==
  /\ last.block = "handleTransportEvent"
  /\ last.input = NULL
  /\ isStudyMode /\ currentCardRef # NoCard /\ realQueueRef # << >>
  /\ evaluation # NULL
  /\ DeltaEvents # {}

\* C36: the study flag is up only while the connected flag is up.
C36_StudyingImpliesConnected == isStudyMode => isConnected

\* A connection attempt has just ended in failure, and no call is running.
ConnectJustFailed ==
  /\ last.block \in { "connect", "connect.mic", "connect.handshake" }
  /\ AllIdle
  /\ error # NULL

\* C37: when a connection attempt has just failed, the hook holds neither
\* a session nor a stream and no stream is live, and a startStudySession
\* called next begins with the auto-connect: it is suspended in connect,
\* or that connect has failed at once and the call is over.
C37_FailedConnectHoldsNothing ==
  ConnectJustFailed =>
     /\ sessionRef = 0
     /\ streamRef = 0 /\ liveStreams = {}
     /\ \A deckName \in StartCalls :
           LET r == StartCall(deckName)
           IN \/ r.tasks[NewSlot].pc = "mic"
              \/ r.tasks[NewSlot] = Idle /\ ~r.isStudyMode /\ r.sent = << >>

\* The calls suspended in the answer they submitted for the card they
\* found current.
SuspendedInGrade == { t \in SuspendedCalls : tasks[t].pc = "grade" }

\* C38: when the answer of a call is accepted and the call ends at once,
\* the due queue being empty and its result the sentinel, a further call
\* of the declared tool serviced next submits no answer for the card the
\* first call has graded.
C38_CardGradedOnce ==
  \A t \in SuspendedInGrade :
     LET r == toolGraded(Begin("tool.grade", t), t, TRUE)
     IN r.tasks[t] = Idle =>
           \A e \in ToolCallEvents :
              (r.toolCallNames[e.call_id] = ToolName /\ ~JSONparse(e.arguments).threw) =>
                 LET again == handleTransportEvent(r, t, e)
                 IN \A i \in 1..Len(again.answers) :
                       again.answers[i].cardId # tasks[t].cardBefore.cardId

\* C39: in real mode, a result that carries the sentinel is sent only by
\* a step that leaves the due queue empty, a short result of cardsInfo
\* included.
C39_SentinelOnlyOnEmptyQueue ==
  activeDeckNameRef # NULL =>
     \A x \in Servicings : \A o \in Outputs(x.after) :
        (o.next_front = EndOfSession \/ o.next_back = EndOfSession) =>
           x.after.realQueueRef = << >>

\* C40: when disconnect() has just run while a startStudySession is
\* suspended, in its auto-connect or in a request of the card source, the
\* step that resumes the start, the request resolved or rejected, throws
\* nothing, sends nothing, and leaves the hook disconnected: no session,
\* not connected, not studying, no deck binding, an empty due queue and
\* no current card.
C40_StartResumedAfterDisconnect ==
  last.block = "disconnect" =>
     \A t \in SuspendedStarts :
        \A resolved \in BOOLEAN, found \in BOOLEAN, dueCards \in DueLists :
           LET r == StartStep(t, resolved, found, dueCards)
           IN /\ r.uncaught = "none"
              /\ r.sent = << >>
              /\ r.sessionRef = 0 /\ ~r.isConnected
              /\ ~r.isStudyMode
              /\ r.activeDeckNameRef = NULL
              /\ r.realQueueRef = << >>
              /\ r.currentCardRef = NoCard /\ r.currentCard = NoCard
====
